---------------------------- MODULE Spec2Model ----------------------------
(***************************************************************************)
(* A model of the spike-and-slab mediation sampler of frame/bslmm.hpp:     *)
(* class Variables (constructor, Residual, PostDistribution1/2, Iteration) *)
(* and the driver mcmc.                                                    *)
(*                                                                         *)
(* Numbers.  The code computes in double; the model computes exactly.      *)
(*  - Outcome-scale quantities (Y, res1, beta_a, beta_m, beta_c and the    *)
(*    means built from them) are integers or rationals counting multiples  *)
(*    of the constant 0.0135567741 that line 260 stores in beta_a, so that *)
(*    that constant is the number 1.  The variances of outcome-scale       *)
(*    quantities (sigma_e, sigma_m0, sigma_m1, sigma_a, var_m0, var_m1,    *)
(*    var_a) count multiples of its square.                                *)
(*  - A rational is a pair <<num, den>> in lowest terms with den > 0.      *)
(*  - A probability pi_m[j], pi_a[j] is represented by its logarithm,      *)
(*    counted in steps of ln(q) / LogQ: the integer L stands for           *)
(*    exp(L * ln(q) / LogQ).  1 is L = 0, 1/q is -LogQ, 1/q^2 is -2*LogQ.  *)
(*  - A value whose size the integers cannot give (a sum of logarithms) is *)
(*    kept as its IEEE class "nan", "ninf", "fin", "pinf".                 *)
(*                                                                         *)
(* Randomness.  std::default_random_engine is a deterministic engine: the  *)
(* model's generator is a small linear congruential engine, and a draw of  *)
(* a distribution is a function of the engine's state after one advance.   *)
(* The parameters of a distribution fix the law of the draw, not the set   *)
(* of values it can take, so the value drawn does not depend on them; the  *)
(* parameters the sampler computes are kept in the state.                  *)
(***************************************************************************)
EXTENDS Integers, Sequences, FiniteSets, TLC

(***************************************************************************)
(* Bounds of the model.                                                    *)
(***************************************************************************)
\* dimensions handed to mcmc / Variables::Variables
n == 2
q == 2
w1 == 1
w2 == 1
\* iterations of the driver loop
MaxIter == 21
\* the generator starts in a state 0..MaxSeed
MaxSeed == 1
\* the engine behind hmlp::Data::rand starts in a state 0..MaxDataSeed
MaxDataSeed == 1
\* the synthetic input data sets are 0..MaxData
MaxData == 1
\* the caller's initial pi_m / pi_a patterns are 0..MaxPiInit
MaxPiInit == 3
\* burnIn is 0 or MaxBurnIn
MaxBurnIn == 10
\* log-steps per 0.01 of the proposal window
Grid == 2

(***************************************************************************)
(* Program constants and the constants of the number representation.       *)
(***************************************************************************)
\* beta_a[ 0 ] = 0.0135567741, the unit of the outcome scale
BetaAInit == 1
\* if ( const2 < 300 ), if ( const5 < 300 )
Clamp == 300
\* it % 10 == 0
Thin == 10
\* the engine: state' = (GenMul * state + GenInc) % GenMod
GenMod == 64
GenMul == 5
GenInc == 3
\* values a Gamma draw's reciprocal takes in the model: 1..SigmaLevels
SigmaLevels == 2
\* a Normal draw takes the values -NormalSpread..NormalSpread
NormalSpread == 1
\* the sum of the logarithms in const2 / const5 is smaller than this in size
LogBound == 20

(***************************************************************************)
(* Arithmetic helpers.                                                     *)
(***************************************************************************)
Abs(x) == IF x < 0 THEN -x ELSE x

RECURSIVE GCD(_, _)
GCD(a, b) == IF b = 0 THEN a ELSE GCD(b, a % b)

\* the rational nu / de in lowest terms (de # 0)
Rat(nu, de) ==
  LET g == GCD(Abs(nu), Abs(de))
      s == IF de < 0 THEN -1 ELSE 1
  IN  <<(s * nu) \div g, (s * de) \div g>>

RAdd(a, b) == Rat(a[1] * b[2] + b[1] * a[2], a[2] * b[2])
RSub(a, b) == Rat(a[1] * b[2] - b[1] * a[2], a[2] * b[2])
RMul(a, b) == Rat(a[1] * b[1], a[2] * b[2])
RDiv(a, b) == Rat(a[1] * b[2], a[2] * b[1])
RInt(k) == <<k, 1>>
RLess(a, b) == a[1] * b[2] < b[1] * a[2]

RECURSIVE SumTo(_, _)
\* f(1) + ... + f(k)
SumTo(f, k) == IF k = 0 THEN 0 ELSE SumTo(f, k - 1) + f[k]

(***************************************************************************)
(* ceil(100 * ln(k)): 0.01 is at least ln(k) / Log100(k).                  *)
(***************************************************************************)
Log100(k) ==
  CASE k = 1 -> 0
    [] k = 2 -> 70
    [] k = 3 -> 110
    [] k = 4 -> 139
    [] k = 5 -> 161
    [] OTHER -> 180

\* ln(q) in log-steps; the window [-0.01, 0.01] holds the steps -Grid..Grid
LogQ == Grid * Log100(q)


(***************************************************************************)
(* The engines.                                                            *)
(***************************************************************************)
\* one advance of std::default_random_engine
GenNext(g) == (GenMul * g + GenInc) % GenMod

RECURSIVE GenAt(_, _)
\* the engine's state after k advances
GenAt(g, k) == IF k = 0 THEN g ELSE GenAt(GenNext(g), k - 1)

\* the engine's state scaled to 0..k-1
Uniform(g, k) == (g * k) \div GenMod

\* 1.0 / dist( generator ) for a std::gamma_distribution: a positive value
InvGamma(g) == 1 + Uniform(g, SigmaLevels)

\* dist( generator ) for a std::normal_distribution of positive deviation
NormalDraw(g) == Uniform(g, 2 * NormalSpread + 1) - NormalSpread

\* a faulty variant: the outcome stored as a sign: 1.0 or -1.0
BernoulliSigned(g) == 2 * ((g \div 8) % 2) - 1

\* if ( distribution( generator ) ) r = 1.0; else r = 0.0; for a
\* std::bernoulli_distribution, 0 < p < 1
BernoulliDraw(g) == (g \div 8) % 2

\* hmlp::Data::rand( a, b ) takes no generator: it has an engine of its own
DataNext(d) == (GenMul * d + GenInc) % GenMod

RECURSIVE DataAt(_, _)
DataAt(d, k) == IF k = 0 THEN d ELSE DataAt(DataNext(d), k - 1)

\* one entry of rand( -0.01, 0.01 ), in log-steps
RandWindow(d) == ((d * (2 * Grid + 1)) \div GenMod) - Grid

\* rand( 0.0, 1.0 ) by the class of its logarithm: "zero" is u = 0
\* (log = -inf); "low" is a u whose logarithm is below every finite probab
\* of the model; "high" is a u whose logarithm is above every negative one
RandUnif(d) ==
  LET k == (d * 3) \div GenMod
  IN  IF k = 0 THEN "high" ELSE IF k = 1 THEN "low" ELSE "zero"

(***************************************************************************)
(* The input data sets (column-major, as hmlp::Data stores them: X[j][i]   *)
(* is row i of column j).                                                  *)
(***************************************************************************)
\* the odd data sets have an outcome forty times as large, so that the
\* log-odds of r1 pass the clamp
DataY(d, len) ==
  [i \in 1..len |-> (1 + 39 * (d % 2)) * (((3 * i + 5 * d) % 7) - 3)]
DataA(d, len) == [i \in 1..len |-> 1 + ((i + d) % 2)]
DataM(d, cols) == [j \in 1..cols |-> [i \in 1..n |-> ((i * j + d) % 3) - 1]]
DataC1(d, cols) == [j \in 1..cols |-> [i \in 1..n |-> 1 + ((i + j + d) % 2)]]
DataC2(d, cols) == [j \in 1..cols |-> [i \in 1..n |-> 1 + ((i * j + d) % 2)]]
\* the caller's beta_m and alpha_a
DataBeta(d, len) == [j \in 1..len |-> (j + d) % 2]
DataAlpha(d, len) == [j \in 1..len |-> ((j + d) % 3) - 1]
\* the caller's pi_m and pi_a, in log-steps: just below 1, 1/q, just above
\* 1/q^2, exp(-0.01); pattern 3 has pi_m[ 0 ] = 1, pattern 2 pi_a[ 1 ] = 1
PiLevel(k) ==
  CASE k % 4 = 0 -> -1
    [] k % 4 = 1 -> -LogQ
    [] k % 4 = 2 -> 1 - 2 * LogQ
    [] OTHER -> -Grid
DataPiM(p, len) ==
  [j \in 1..len |-> IF p % 4 = 3 /\ j = 1 THEN 0 ELSE PiLevel(p + j - 1)]
DataPiA(p, len) ==
  [j \in 1..len |-> IF p % 4 = 2 /\ j = 2 THEN 0 ELSE PiLevel(p + 2 * j)]

(***************************************************************************)
(* IEEE classes of a double: "nan", "ninf", "fin", "pinf".                 *)
(***************************************************************************)
ExtNeg(a) == IF a = "pinf" THEN "ninf" ELSE IF a = "ninf" THEN "pinf" ELSE a

ExtAdd(a, b) ==
  IF a = "nan" \/ b = "nan" THEN "nan"
  ELSE IF a = "fin" THEN b
  ELSE IF b = "fin" THEN a
  ELSE IF a = b THEN a ELSE "nan"

ExtSub(a, b) == ExtAdd(a, ExtNeg(b))

(***************************************************************************)
(* Variables::Variables, the column 2-norms.                               *)
(***************************************************************************)
\* a faulty variant: the loop stops one row early
Norm2ButLast(col) == SumTo([i \in 1..(n - 1) |-> col[i] * col[i]], n - 1)

\* for i < n: acc += X[ i ] * X[ i ]
Norm2(col) == SumTo([i \in 1..n |-> col[i] * col[i]], n)

(***************************************************************************)
(* Variables::Residual.                                                    *)
(***************************************************************************)
\* res1 = Y; res1[i] -= beta_a * A[i]; xgemm: res1 -= M * beta_m;
\* xgemm: res1 -= C1 * beta_c.  The copy has the length of Y; the loops and
\* the products touch its first n entries.
Res1Of(y, a, m, c1, ba, bm, bc) ==
  [i \in 1..Len(y) |->
     IF i <= n
     THEN y[i] - ba * a[i]
          - SumTo([k \in 1..q |-> m[k][i] * bm[k]], q)
          - SumTo([k \in 1..w1 |-> c1[k][i] * bc[k]], w1)
     ELSE y[i]]

\* res2 = M; xgemm: res2 -= A * alpha_a; xgemm: res2 -= C2 * alpha_c
Res2Of(m, a, c2, aa, ac) ==
  [k \in 1..Len(m) |->
     IF k <= q
     THEN [i \in 1..n |->
             m[k][i] - a[i] * aa[k]
             - SumTo([c \in 1..w2 |-> c2[c][i] * ac[k][c]], w2)]
     ELSE m[k]]

\* res2_c = M; xgemm: res2_c -= C2 * alpha_c
Res2cOf(m, c2, ac) ==
  [k \in 1..Len(m) |->
     IF k <= q
     THEN [i \in 1..n |-> m[k][i] - SumTo([c \in 1..w2 |-> c2[c][i] * ac[k][c]], w2)]
     ELSE m[k]]

(***************************************************************************)
(* Variables::Iteration, the conjugate-normal quantities.                  *)
(***************************************************************************)
\* 1.0 / ( 1.0 / sigma_m + M2norm[ j ] / sigma_e )
VarM(sm, m2, se) ==
  RDiv(RInt(1), RAdd(RDiv(RInt(1), RInt(sm)), RDiv(RInt(m2), RInt(se))))

\* sigma / ( sigma / prior + A2norm ): var_alpha_a0, var_alpha_a1, var_a
VarA(sg, prior, a2) ==
  RDiv(RInt(sg), RAdd(RDiv(RInt(sg), RInt(prior)), RInt(a2)))

\* mu_mj: for i < n: M( i, j ) * ( res1[ i ] + M( i, j ) * beta_m[ j ] )
MuMj(col, r, b) == SumTo([i \in 1..n |-> col[i] * (r[i] + col[i] * b)], n)

\* mu_alpha_aj: for i < n: A[ i ] * res2_c[ j * n + i ]
MuAlphaAj(a, rc) == SumTo([i \in 1..n |-> a[i] * rc[i]], n)

\* mu_mj / ( ( sigma_e / sigma_m ) + M2norm[ j ] )
MuMjOver(mu, se, sm, m2) ==
  RDiv(RInt(mu), RAdd(RDiv(RInt(se), RInt(sm)), RInt(m2)))

\* mu_alpha_aj * ( var_alpha_a / sigma_g )
MuAlphaOver(mu, va, sg) == RMul(RInt(mu), RDiv(va, RInt(sg)))

\* r * draw1 + ( 1 - r ) * draw0
Mix(r, d1, d0) == r * d1 + (1 - r) * d0

\* a faulty variant: the difference taken the other way round: ( new - old )
DeltaReversed(res, o, new, col) ==
  [i \in 1..Len(res) |-> IF i <= n THEN res[i] + (new - o) * col[i] ELSE res[i]]

\* res[ i ] + ( old - new ) * column[ i ], for i < n
Delta(res, o, new, col) ==
  [i \in 1..Len(res) |-> IF i <= n THEN res[i] + (o - new) * col[i] ELSE res[i]]

(***************************************************************************)
(* The log-odds const2 / const5: the rational part                         *)
(* mu1^2 / (2 var1) - mu0^2 / (2 var0) is computed; the three logarithms   *)
(* add less than LogBound in size when pi < 1, +inf when pi = 1 (the       *)
(* quotient pi / (1 - pi) is 1 / 0) and NaN when pi > 1.  Where the        *)
(* rational part is within LogBound of the clamp, the logarithms decide    *)
(* the comparison: both outcomes are possible.                             *)
(***************************************************************************)
LogOdds(mu1, v1, mu0, v0, piL) ==
  [cls |-> IF piL > 0 THEN "nan" ELSE IF piL = 0 THEN "pinf" ELSE "fin",
   rat |-> RSub(RDiv(RMul(mu1, mu1), RMul(RInt(2), v1)),
                RDiv(RMul(mu0, mu0), RMul(RInt(2), v0)))]

\* the value is decided by its rational part: that part is not within
\* LogBound of the clamp
Decided(c) ==
  c.cls = "fin" =>
    \/ RLess(c.rat, RInt(Clamp - LogBound))
    \/ RLess(RInt(Clamp + LogBound), c.rat)

\* if ( const2 < 300 ): false for NaN and for +inf
Below(c) == c.cls = "fin" /\ RLess(c.rat, RInt(Clamp))

\* the outcomes the comparison can have
BelowOutcomes(c) == IF Decided(c) THEN {Below(c)} ELSE BOOLEAN

(***************************************************************************)
(* PostDistribution1 / PostDistribution2 by IEEE class.  For p < 1 every   *)
(* term is finite; for p = 1, log(1 - p) is -inf, and -inf * 0 is NaN; for *)
(* p > 1, log(1 - p) is NaN.                                               *)
(***************************************************************************)
PostTerm(piL, r) ==
  IF piL > 0 THEN "nan"
  ELSE IF piL = 0 THEN (IF r = 1 THEN "nan" ELSE "ninf")
  ELSE "fin"

RECURSIVE PostSum(_, _, _)
\* logc += ... for the first k mediators
PostSum(p, r, k) ==
  IF k = 0 THEN "fin" ELSE ExtAdd(PostSum(p, r, k - 1), PostTerm(p[k], r[k]))

PostDistribution(p, r) == PostSum(p, r, q)

(***************************************************************************)
(* The sign of a finite probab.  With all four sums finite it is a sum of  *)
(* one term per mediator and vector: r * (log p' - log p)                  *)
(* + (1 - r) * (log(1 - p') - log(1 - p)), which has the sign of p' - p    *)
(* when r = 1 and of p - p' when r = 0.                                    *)
(***************************************************************************)
TermSign(new, cur, r) ==
  LET d == IF r = 1 THEN new - cur ELSE cur - new
  IN  IF d > 0 THEN 1 ELSE IF d < 0 THEN -1 ELSE 0

\* "nonneg": no negative term; "neg": no positive term and a negative one;
\* "mixed": terms of both signs
ProbabSign(mym, pm, ra, mya, pa, rb) ==
  LET S == {TermSign(mym[k], pm[k], ra[k]) : k \in 1..q}
           \cup {TermSign(mya[k], pa[k], rb[k]) : k \in 1..q}
  IN  IF -1 \notin S THEN "nonneg" ELSE IF 1 \notin S THEN "neg" ELSE "mixed"

\* PostDistribution2( my_pi_a ) - PostDistribution2( pi_a )
\* + PostDistribution1( my_pi_m ) - PostDistribution1( pi_m )
Probab(mym, pm, ra, mya, pa, rb) ==
  ExtSub(ExtAdd(ExtSub(PostDistribution(mya, rb), PostDistribution(pa, rb)),
                PostDistribution(mym, ra)),
         PostDistribution(pm, ra))

\* probab > std::log( my_unif[ 0 ] ); positive says where a finite probab
\* of mixed sign lies when the logarithm of u is just below 0
Accept(pr, sign, u, positive) ==
  IF pr = "nan" \/ pr = "ninf" THEN FALSE
  ELSE IF pr = "pinf" THEN TRUE
  ELSE IF u = "zero" \/ u = "low" THEN TRUE
  ELSE IF sign = "nonneg" THEN TRUE
  ELSE IF sign = "neg" THEN FALSE
  ELSE positive

\* a faulty variant: without the reflection at 1/q
ReflectAtOneOnly(piL, eps) ==
  LET a == piL + eps
  IN  IF a > 0 THEN -a ELSE a

\* the proposal for one entry: my = pi * exp( eps ); my = abs( my );
\* if ( my > 1.0 ) my = 1.0 / my; if ( my < 1.0/q ) my = 1.0 / ( q*q*my )
Reflect(piL, eps) ==
  LET a == piL + eps
      b == IF a > 0 THEN -a ELSE a
  IN  IF b < -LogQ THEN -2 * LogQ - b ELSE b

(***************************************************************************)
(* The result row: for each mediator beta_m pi_m alpha_a pi_a, then        *)
(* beta_a.  operator<< writes six significant digits, which tells apart    *)
(* the values of the model: a number below 10^6 in size is written as it   *)
(* is, a larger one is rounded to its six leading digits.                  *)
(***************************************************************************)
RECURSIVE Six(_)
Six(x) ==
  IF Abs(x) < 1000000 THEN x
  ELSE 10 * Six((x + (IF x < 0 THEN -5 ELSE 5)) \div 10)

RECURSIVE RowTo(_, _, _, _, _)
RowTo(bm, pm, aa, pa, k) ==
  IF k = 0 THEN <<>>
  ELSE RowTo(bm, pm, aa, pa, k - 1)
       \o <<Six(bm[k]), pm[k], Six(aa[k]), pa[k]>>

Row(bm, pm, aa, pa, ba) == Append(RowTo(bm, pm, aa, pa, q), Six(ba))

(***************************************************************************)
(* The state.                                                              *)
(***************************************************************************)
VARIABLES
  \* the caller's data and the arguments of mcmc
  Y, A, M, C1, C2, burnIn, niter,
  \* the order in which the build evaluates the two operands of
  \* r * dist1( generator ) + ( 1 - r ) * dist0( generator )
  order,
  \* parameters
  beta_a, beta_m, alpha_a, beta_c, alpha_c, r1, r3, pi_m, pi_a,
  sigma_m0, sigma_m1, sigma_a, sigma_ma0, sigma_ma1, sigma_g, sigma_e,
  \* caches
  A2norm, M2norm, C1_2norm, C2_2norm, res1, res2, res2_c,
  var_m0, var_m1, var_alpha_a0, var_alpha_a1, var_a, old,
  \* Variables::generator, the engine of hmlp::Data::rand, the seed of srand
  generator, datarng, crand,
  \* the number of times Residual has run
  residual_calls,
  \* the place in mcmc / Iteration: it, the loop counters j and j1
  pc, it, j, j1,
  \* locals of Iteration, as last computed
  mu_mj0, mu_mj1, mu_alpha_aj0, mu_alpha_aj1, const2, const5,
  mu_alpha_cj, mu_cj, mu_a, my_pi_m, my_pi_a, probab, my_unif,
  \* the rows of results_<q>.txt
  outfile

inputs == <<Y, A, M, C1, C2, burnIn, niter, order>>
coefs == <<beta_a, beta_m, alpha_a, beta_c, alpha_c>>
indicators == <<r1, r3>>
priors == <<pi_m, pi_a>>
sigmas == <<sigma_m0, sigma_m1, sigma_a, sigma_ma0, sigma_ma1, sigma_g, sigma_e>>
norms == <<A2norm, M2norm, C1_2norm, C2_2norm>>
residuals == <<res1, res2, res2_c>>
variances == <<var_m0, var_m1, var_alpha_a0, var_alpha_a1, var_a>>
engines == <<generator, datarng, crand>>
medlocals == <<mu_mj0, mu_mj1, mu_alpha_aj0, mu_alpha_aj1, const2, const5>>
priorlocals == <<my_pi_m, my_pi_a, probab, my_unif>>

vars == <<inputs, coefs, indicators, priors, sigmas, norms, residuals,
          variances, old, engines, residual_calls, pc, it, j, j1, medlocals,
          mu_alpha_cj, mu_cj, mu_a, priorlocals, outfile>>

(***************************************************************************)
(* The caller's arguments.  extra names the argument, if any, that is one  *)
(* element (a vector) or one column (a matrix) longer than the dimensions  *)
(* n, w1, w2, q say.                                                       *)
(***************************************************************************)
Arguments == {"Y", "A", "M", "C1", "C2", "beta_m", "alpha_a", "pi_m", "pi_a"}

Size(name, extra, base) == IF name = extra THEN base + 1 ELSE base

\* the sizes of the arguments are the ones the dimensions say
SizesMatch ==
  /\ Len(Y) = n /\ Len(A) = n
  /\ Len(M) = q /\ Len(C1) = w1 /\ Len(C2) = w2
  /\ Len(beta_m) = q /\ Len(alpha_a) = q
  /\ Len(pi_m) = q /\ Len(pi_a) = q

\* the state before mcmc constructs its Variables
Setup(d, seed, dseed, p, burn, ord, extra) ==
  /\ Y = DataY(d, Size("Y", extra, n))
  /\ A = DataA(d, Size("A", extra, n))
  /\ M = DataM(d, Size("M", extra, q))
  /\ C1 = DataC1(d, Size("C1", extra, w1))
  /\ C2 = DataC2(d, Size("C2", extra, w2))
  /\ beta_m = DataBeta(d, Size("beta_m", extra, q))
  /\ alpha_a = DataAlpha(d, Size("alpha_a", extra, q))
  /\ pi_m = DataPiM(p, Size("pi_m", extra, q))
  /\ pi_a = DataPiA(p, Size("pi_a", extra, q))
  /\ burnIn = burn
  /\ niter = MaxIter
  /\ order = ord
  /\ generator = seed
  /\ datarng = dseed
  /\ crand = 1
  /\ residual_calls = 0
  /\ beta_a = <<>> /\ beta_c = <<>> /\ alpha_c = <<>>
  /\ r1 = <<>> /\ r3 = <<>>
  /\ sigma_m0 = 0 /\ sigma_m1 = 0 /\ sigma_a = 0 /\ sigma_ma0 = 0
  /\ sigma_ma1 = 0 /\ sigma_g = 0 /\ sigma_e = 0
  /\ A2norm = <<>> /\ M2norm = <<>> /\ C1_2norm = <<>> /\ C2_2norm = <<>>
  /\ res1 = <<>> /\ res2 = <<>> /\ res2_c = <<>>
  /\ var_m0 = <<>> /\ var_m1 = <<>>
  /\ var_alpha_a0 = <<>> /\ var_alpha_a1 = <<>> /\ var_a = <<>>
  /\ old = 0
  /\ pc = "new" /\ it = 0 /\ j = 0 /\ j1 = 0
  /\ mu_mj0 = RInt(0) /\ mu_mj1 = RInt(0)
  /\ mu_alpha_aj0 = RInt(0) /\ mu_alpha_aj1 = RInt(0)
  /\ const2 = [cls |-> "fin", rat |-> RInt(0)]
  /\ const5 = [cls |-> "fin", rat |-> RInt(0)]
  /\ mu_alpha_cj = RInt(0) /\ mu_cj = RInt(0) /\ mu_a = RInt(0)
  /\ my_pi_m = <<>> /\ my_pi_a = <<>> /\ probab = "fin" /\ my_unif = "low"
  /\ outfile = <<>>

Init ==
  \E d \in 0..MaxData, seed \in 0..MaxSeed, dseed \in 0..MaxDataSeed,
     p \in 0..MaxPiInit, burn \in {0, MaxBurnIn}, ord \in {"lr", "rl"} :
    Setup(d, seed, dseed, p, burn, ord, "none")

\* a caller whose arguments do not all have the sizes the dimensions say
InitMalformed ==
  \E d \in 0..MaxData, extra \in Arguments, ord \in {"lr", "rl"} :
    Setup(d, 0, 0, 1, 0, ord, extra)

(***************************************************************************)
(* mcmc: Variables<T> variables( ... ).  The constructor binds the         *)
(* arguments, draws the seven variances from their priors, zeroes r1, r3,  *)
(* beta_c, alpha_c, sets beta_a, and sums the squares of the columns.  It  *)
(* compares no size with a dimension.                                      *)
(***************************************************************************)
Construct ==
  /\ pc = "new"
  /\ sigma_m0' = InvGamma(GenAt(generator, 1))
  /\ sigma_m1' = InvGamma(GenAt(generator, 2))
  /\ sigma_a' = InvGamma(GenAt(generator, 3))
  /\ sigma_ma0' = InvGamma(GenAt(generator, 4))
  /\ sigma_ma1' = InvGamma(GenAt(generator, 5))
  /\ sigma_g' = InvGamma(GenAt(generator, 6))
  /\ sigma_e' = InvGamma(GenAt(generator, 7))
  /\ generator' = GenAt(generator, 7)
  /\ r1' = [k \in 1..q |-> 0]
  /\ r3' = [k \in 1..q |-> 0]
  /\ beta_a' = <<BetaAInit>>
  /\ beta_c' = [k \in 1..w1 |-> 0]
  /\ alpha_c' = [k \in 1..q |-> [c \in 1..w2 |-> 0]]
  /\ A2norm' = <<Norm2(A)>>
  /\ M2norm' = [k \in 1..q |-> Norm2(M[k])]
  /\ C1_2norm' = [k \in 1..w1 |-> Norm2(C1[k])]
  /\ C2_2norm' = [k \in 1..w2 |-> Norm2(C2[k])]
  /\ pc' = "idle"
  /\ UNCHANGED <<inputs, beta_m, alpha_a, priors, residuals, variances, old,
                 datarng, crand, residual_calls,
                 it, j, j1, medlocals, mu_alpha_cj, mu_cj,
                 mu_a, priorlocals, outfile>>

(***************************************************************************)
(* Iteration( burnIn, it ), from its entry to the mediator loop: srand,    *)
(* Residual on it == 0, var_m0 / var_m1, the draws of sigma_e and sigma_g, *)
(* var_alpha_a0 / var_alpha_a1 / var_a.                                    *)
(***************************************************************************)
\* where the sweep goes once mediator k - 1 is done (k is 0-based)
AfterMediator(k) == IF k < q THEN "med" ELSE IF w1 > 0 THEN "betac" ELSE "betaa"

\* a faulty variant: Residual( it ) called in every iteration
RecomputeAlways(i) == i >= 0

\* if ( it == 0 ) Residual( it )
RecomputeDue(i) == i = 0

IterBegin ==
  /\ pc = "idle"
  /\ it < niter
  /\ crand' = it
  /\ IF RecomputeDue(it)
     THEN /\ res1' = Res1Of(Y, A, M, C1, beta_a[1], beta_m, beta_c)
          /\ res2' = Res2Of(M, A, C2, alpha_a, alpha_c)
          /\ res2_c' = Res2cOf(M, C2, alpha_c)
          /\ residual_calls' = residual_calls + 1
     ELSE UNCHANGED <<residuals, residual_calls>>
  /\ var_m0' = [k \in 1..q |-> VarM(sigma_m0, M2norm[k], sigma_e)]
  /\ var_m1' = [k \in 1..q |-> VarM(sigma_m1, M2norm[k], sigma_e)]
  /\ sigma_e' = InvGamma(GenAt(generator, 1))
  /\ sigma_g' = InvGamma(GenAt(generator, 2))
  /\ generator' = GenAt(generator, 2)
  /\ var_alpha_a0' = <<VarA(sigma_g', sigma_ma0, A2norm[1])>>
  /\ var_alpha_a1' = <<VarA(sigma_g', sigma_ma1, A2norm[1])>>
  /\ var_a' = <<VarA(sigma_e', sigma_a, A2norm[1])>>
  /\ j' = 0
  /\ j1' = 0
  /\ pc' = AfterMediator(0)
  /\ UNCHANGED <<inputs, coefs, indicators, priors, sigma_m0, sigma_m1,
                 sigma_a, sigma_ma0, sigma_ma1, norms, old, datarng, it,
                 medlocals, mu_alpha_cj, mu_cj, mu_a, priorlocals, outfile>>

(***************************************************************************)
(* Iteration, one pass of the loop over the mediators, up to the loop over *)
(* j1: beta_m[ j ], alpha_a[ j ], r1[ j ], r3[ j ].                        *)
(***************************************************************************)
\* the loop counter j after mediator k - 1 (the loop over w1 restarts at 0)
NextJ(k) == IF k < q THEN k ELSE 0

\* the draw of the operand dist1( generator ), given the engine's states at
\* the first and at the second of the two calls
DrawActive(ord, ga, gb) == NormalDraw(IF ord = "lr" THEN ga ELSE gb)

\* the draw of the operand dist0( generator )
DrawInactive(ord, ga, gb) == NormalDraw(IF ord = "lr" THEN gb ELSE ga)

\* the engine after the update of an indicator (below: const < 300)
AfterIndicator(below, g) == IF below THEN GenNext(g) ELSE g

\* a faulty variant: the else branch stores 0.0
IndicatorClampedOff(below, g) ==
  IF below THEN BernoulliDraw(GenNext(g)) ELSE 0

\* the indicator: a Bernoulli draw below the clamp, 1.0 otherwise
Indicator(below, g) == IF below THEN BernoulliDraw(GenNext(g)) ELSE 1

Mediator ==
  /\ pc = "med"
  /\ LET jj == j + 1
         mu == MuMj(M[jj], res1, beta_m[jj])
         mua == MuAlphaAj(A, res2_c[jj])
         m0 == MuMjOver(mu, sigma_e, sigma_m0, M2norm[jj])
         m1 == MuMjOver(mu, sigma_e, sigma_m1, M2norm[jj])
         a0 == MuAlphaOver(mua, var_alpha_a0[1], sigma_g)
         a1 == MuAlphaOver(mua, var_alpha_a1[1], sigma_g)
         g1 == GenAt(generator, 1)
         g2 == GenAt(generator, 2)
         g3 == GenAt(generator, 3)
         g4 == GenAt(generator, 4)
         bm == Mix(r1[jj], DrawActive(order, g1, g2), DrawInactive(order, g1, g2))
         aa == Mix(r3[jj], DrawActive(order, g3, g4), DrawInactive(order, g3, g4))
         c2 == LogOdds(m1, var_m1[jj], m0, var_m0[jj], pi_m[jj])
         c5 == LogOdds(a1, var_alpha_a1[1], a0, var_alpha_a0[1], pi_a[jj])
     IN  /\ mu_mj0' = m0 /\ mu_mj1' = m1
         /\ mu_alpha_aj0' = a0 /\ mu_alpha_aj1' = a1
         /\ beta_m' = [beta_m EXCEPT ![jj] = bm]
         /\ res1' = Delta(res1, beta_m[jj], bm, M[jj])
         /\ alpha_a' = [alpha_a EXCEPT ![jj] = aa]
         /\ res2' = [res2 EXCEPT ![jj] = Delta(res2[jj], alpha_a[jj], aa, A)]
         /\ old' = alpha_a[jj]
         /\ const2' = c2
         /\ const5' = c5
         /\ \E below2 \in BelowOutcomes(c2), below5 \in BelowOutcomes(c5) :
              LET g5 == AfterIndicator(below2, g4)
              IN  /\ r1' = [r1 EXCEPT ![jj] = Indicator(below2, g4)]
                  /\ r3' = [r3 EXCEPT ![jj] = Indicator(below5, g5)]
                  /\ generator' = AfterIndicator(below5, g5)
  /\ j1' = 0
  /\ IF w2 > 0
     THEN /\ pc' = "alphac"
          /\ j' = j
     ELSE /\ pc' = AfterMediator(j + 1)
          /\ j' = NextJ(j + 1)
  /\ UNCHANGED <<inputs, beta_a, beta_c, alpha_c, priors, sigmas, norms,
                 res2_c, variances, datarng, crand, residual_calls,
                 it, mu_alpha_cj, mu_cj,
                 mu_a, priorlocals, outfile>>

(***************************************************************************)
(* Iteration, one pass of the loop over j1 < w2: alpha_c( j1, j ).         *)
(***************************************************************************)
\* mu_alpha_cj: the sum over i < n, divided by C2_2norm[ j1 ]
MuAlphaCj(col, r, b, nrm) ==
  RDiv(RInt(SumTo([i \in 1..n |-> col[i] * (r[i] + b * col[i])], n)), RInt(nrm))

AlphaC ==
  /\ pc = "alphac"
  /\ LET jj == j + 1
         cc == j1 + 1
         was == alpha_c[jj][cc]
         new == NormalDraw(GenNext(generator))
     IN  /\ old' = was
         /\ mu_alpha_cj' = MuAlphaCj(C2[cc], res2[jj], was, C2_2norm[cc])
         /\ alpha_c' = [alpha_c EXCEPT ![jj][cc] = new]
         /\ res2' = [res2 EXCEPT ![jj] = Delta(res2[jj], was, new, C2[cc])]
         /\ res2_c' = [res2_c EXCEPT ![jj] = Delta(res2_c[jj], was, new, C2[cc])]
         /\ generator' = GenNext(generator)
  /\ IF j1 + 1 < w2
     THEN /\ j1' = j1 + 1
          /\ j' = j
          /\ pc' = "alphac"
     ELSE /\ j1' = 0
          /\ j' = NextJ(j + 1)
          /\ pc' = AfterMediator(j + 1)
  /\ UNCHANGED <<inputs, beta_a, beta_m, alpha_a, beta_c, indicators, priors,
                 sigmas, norms, res1, variances, datarng, crand, residual_calls,
                 it,
                 medlocals, mu_cj, mu_a, priorlocals, outfile>>

(***************************************************************************)
(* Iteration, one pass of the loop over j < w1: beta_c[ j ].  The division *)
(* of mu_cj by C1_2norm[ j ], the construction of dist_beta_c and the draw *)
(* stand inside the loop over i (lines 510 to 516).                        *)
(***************************************************************************)
RECURSIVE BetaCLoop(_, _, _, _, _, _)
\* <<mu_cj, beta_c[ j ], generator>> after the rows 0..i-1
BetaCLoop(col, r, nrm, b, g, i) ==
  IF i = 0 THEN <<RInt(0), b, g>>
  ELSE LET prev == BetaCLoop(col, r, nrm, b, g, i - 1)
           mu == RDiv(RAdd(prev[1], RInt(col[i] * (r[i] + col[i] * prev[2]))),
                      RInt(nrm))
           g2 == GenNext(prev[3])
       IN  <<mu, NormalDraw(g2), g2>>

BetaC ==
  /\ pc = "betac"
  /\ LET jj == j + 1
         out == BetaCLoop(C1[jj], res1, C1_2norm[jj], beta_c[jj], generator, n)
     IN  /\ old' = beta_c[jj]
         /\ mu_cj' = out[1]
         /\ beta_c' = [beta_c EXCEPT ![jj] = out[2]]
         /\ generator' = out[3]
         /\ res1' = Delta(res1, beta_c[jj], out[2], C1[jj])
  /\ IF j + 1 < w1
     THEN /\ j' = j + 1
          /\ pc' = "betac"
     ELSE /\ j' = 0
          /\ pc' = "betaa"
  /\ UNCHANGED <<inputs, beta_a, beta_m, alpha_a, alpha_c, indicators, priors,
                 sigmas, norms, res2, res2_c, variances, datarng, crand, residual_calls,
                 it,
                 j1, medlocals, mu_alpha_cj, mu_a, priorlocals, outfile>>

(***************************************************************************)
(* Iteration: beta_a.                                                      *)
(***************************************************************************)
\* mu_a: the sum over i < n, times ( var_a[ 0 ] / sigma_e )
MuA(a, r, b, va, se) ==
  RMul(RInt(SumTo([i \in 1..n |-> a[i] * (r[i] + b * a[i])], n)), RDiv(va, RInt(se)))

BetaA ==
  /\ pc = "betaa"
  /\ LET new == NormalDraw(GenNext(generator))
     IN  /\ old' = beta_a[1]
         /\ mu_a' = MuA(A, res1, beta_a[1], var_a[1], sigma_e)
         /\ beta_a' = <<new>>
         /\ res1' = Delta(res1, beta_a[1], new, A)
         /\ generator' = GenNext(generator)
  /\ pc' = "sigma"
  /\ UNCHANGED <<inputs, beta_m, alpha_a, beta_c, alpha_c, indicators, priors,
                 sigmas, norms, res2, res2_c, variances, datarng, crand, residual_calls,
                 it,
                 j, j1, medlocals, mu_alpha_cj, mu_cj, priorlocals, outfile>>

(***************************************************************************)
(* Iteration: sigma_m1, sigma_a, sigma_ma1, then sigma_m0, sigma_ma0.      *)
(***************************************************************************)
Sigma ==
  /\ pc = "sigma"
  /\ sigma_m1' = InvGamma(GenAt(generator, 1))
  /\ sigma_a' = InvGamma(GenAt(generator, 2))
  /\ sigma_ma1' = InvGamma(GenAt(generator, 3))
  /\ sigma_m0' = InvGamma(GenAt(generator, 4))
  /\ sigma_ma0' = InvGamma(GenAt(generator, 5))
  /\ generator' = GenAt(generator, 5)
  /\ pc' = "prior"
  /\ UNCHANGED <<inputs, coefs, indicators, priors, sigma_g, sigma_e, norms,
                 residuals, variances, old, datarng, crand, residual_calls,
                 it, j, j1,
                 medlocals, mu_alpha_cj, mu_cj, mu_a, priorlocals, outfile>>

(***************************************************************************)
(* Iteration: the proposal for pi_m and pi_a and its acceptance.           *)
(* log_my_pi_m.rand, log_my_pi_a.rand and my_unif.rand draw 2 q + 1 values *)
(* from the engine of hmlp::Data::rand, in this order.                     *)
(***************************************************************************)
\* a faulty variant: the copying loop stops one entry early
CommitButLast(acc, cur, prop) ==
  [k \in 1..Len(cur) |-> IF acc /\ k < q THEN prop[k] ELSE cur[k]]

\* the vector after the test: the proposal if accepted, else as it was
Commit(acc, cur, prop) ==
  [k \in 1..Len(cur) |-> IF acc /\ k <= q THEN prop[k] ELSE cur[k]]

Prior ==
  /\ pc = "prior"
  /\ LET mym == [k \in 1..q |-> Reflect(pi_m[k], RandWindow(DataAt(datarng, k)))]
         mya == [k \in 1..q |-> Reflect(pi_a[k], RandWindow(DataAt(datarng, q + k)))]
         u == RandUnif(DataAt(datarng, 2 * q + 1))
         pr == Probab(mym, pi_m, r1, mya, pi_a, r3)
         sign == ProbabSign(mym, pi_m, r1, mya, pi_a, r3)
         open == pr = "fin" /\ u = "high" /\ sign = "mixed"
     IN  \E positive \in (IF open THEN BOOLEAN ELSE {FALSE}) :
           /\ my_pi_m' = mym
           /\ my_pi_a' = mya
           /\ my_unif' = u
           /\ probab' = pr
           /\ pi_a' = Commit(Accept(pr, sign, u, positive), pi_a, mya)
           /\ pi_m' = Commit(Accept(pr, sign, u, positive), pi_m, mym)
  /\ datarng' = DataAt(datarng, 2 * q + 1)
  /\ pc' = "sink"
  /\ UNCHANGED <<inputs, coefs, indicators, sigmas, norms, residuals,
                 variances, old, generator, crand, residual_calls,
                 it, j, j1, medlocals,
                 mu_alpha_cj, mu_cj, mu_a, outfile>>

(***************************************************************************)
(* Iteration, its end: the row appended to results_<q>.txt after burn-in   *)
(* on every tenth iteration; then the driver's it ++.                      *)
(***************************************************************************)
\* a faulty variant: it >= burnIn
RetainedFrom(burn, i) == i >= burn /\ i % Thin = 0

\* if ( it > burnIn && it % 10 == 0 )
Retained(burn, i) == i > burn /\ i % Thin = 0

\* a faulty variant: the row written from the proposal instead of the committed pi
RowOfProposal(bm, pm, aa, pa, ba) == Row(bm, my_pi_m, aa, my_pi_a, ba)

\* outfile << beta_m[ i ] << pi_m[ i ] << alpha_a[ i ] << pi_a[ i ] ...
\* << beta_a[ 0 ]
ResultRow(bm, pm, aa, pa, ba) == Row(bm, pm, aa, pa, ba)

Sink ==
  /\ pc = "sink"
  /\ outfile' = IF Retained(burnIn, it)
                THEN Append(outfile,
                            ResultRow(beta_m, pi_m, alpha_a, pi_a, beta_a[1]))
                ELSE outfile
  /\ it' = it + 1
  /\ pc' = "idle"
  /\ UNCHANGED <<inputs, coefs, indicators, priors, sigmas, norms, residuals,
                 variances, old, engines, residual_calls,
                 j, j1, medlocals, mu_alpha_cj, mu_cj,
                 mu_a, priorlocals>>

(***************************************************************************)
(* mcmc: the constructor, then Iteration( burnIn, it ) for it < niter.     *)
(***************************************************************************)
Next ==
  \/ Construct
  \/ IterBegin
  \/ Mediator
  \/ AlphaC
  \/ BetaC
  \/ BetaA
  \/ Sigma
  \/ Prior
  \/ Sink

Spec == Init /\ [][Next]_vars

SpecMalformed == InitMalformed /\ [][Next]_vars

(***************************************************************************)
(* The claims.                                                             *)
(***************************************************************************)
\* an Iteration call has just returned
Returned == pc = "idle" /\ it > 0

\* C1: at the end of every Iteration call of a driver run the caches equal
\* their defining formulas on the current parameters:
\* res1 = Y - beta_a*A - M*beta_m - C1*beta_c, and for every mediator
\* res2[:,j] = M[:,j] - A*alpha_a[j] - C2*alpha_c[:,j] and
\* res2_c[:,j] = M[:,j] - C2*alpha_c[:,j].
C1_ResidualConsistency ==
  Returned =>
    /\ \A i \in 1..n :
         res1[i] = Y[i] - beta_a[1] * A[i]
                   - SumTo([k \in 1..q |-> M[k][i] * beta_m[k]], q)
                   - SumTo([k \in 1..w1 |-> C1[k][i] * beta_c[k]], w1)
    /\ \A k \in 1..q : \A i \in 1..n :
         /\ res2[k][i] = M[k][i] - A[i] * alpha_a[k]
                         - SumTo([c \in 1..w2 |-> C2[c][i] * alpha_c[k][c]], w2)
         /\ res2_c[k][i] = M[k][i]
                           - SumTo([c \in 1..w2 |-> C2[c][i] * alpha_c[k][c]], w2)

\* a call after the first has returned with every kind of coefficient moved
\* off the value the constructor or the caller gave it
C1_Witness ==
  /\ Returned /\ it >= 2
  /\ beta_a[1] # BetaAInit
  /\ \E k \in 1..w1 : beta_c[k] # 0
  /\ \E k \in 1..q : \E c \in 1..w2 : alpha_c[k][c] # 0
  /\ \E k \in 1..q : beta_m[k] < 0
  /\ \E k \in 1..q : alpha_a[k] > 0

\* C2: every r1[j] and r3[j] is exactly 0 or exactly 1, after construction
\* and after any number of Iteration calls.
C2_IndicatorRange ==
  pc # "new" =>
    \A k \in 1..q : r1[k] \in {0, 1} /\ r3[k] \in {0, 1}

\* indicators of both values after a sweep, one set by the clamp (pi_m = 1
\* makes the log-odds +inf) and one by a Bernoulli draw
C2_Witness ==
  /\ Returned
  /\ \E k \in 1..q : r1[k] = 1 /\ pi_m[k] = 0
  /\ \E k \in 1..q : r1[k] = 0
  /\ \E k \in 1..q : r3[k] = 1
  /\ \E k \in 1..q : r3[k] = 0

\* pi lies in (1/q^2, 1]
InRange(piL) == -2 * LogQ < piL /\ piL <= 0

\* C3: the caller's pi_m[j] and pi_a[j] lying in (1/q^2, 1] (every initial
\* state has them there), every pi_m[j] and pi_a[j] lies in (1/q^2, 1] in
\* every state: no value the adaptive prior step commits exceeds 1 or is at
\* or below 1/q^2.
C3_ProbabilityRange ==
  \A k \in 1..q : InRange(pi_m[k]) /\ InRange(pi_a[k])

\* the prior step has run with a proposal that the reflection at 1/q sent
\* above 1 (the caller's value was just above 1/q^2), and pi is in range
C3_Witness ==
  /\ pc = "sink"
  /\ \E k \in 1..q : my_pi_m[k] > 0 \/ my_pi_a[k] > 0
  /\ \A k \in 1..q : InRange(pi_m[k]) /\ InRange(pi_a[k])

\* the number of i in 0..k-1 with i > burnIn and i mod 10 = 0
RowsDue(k) == Cardinality({i \in 0..(k - 1) : i > burnIn /\ i % 10 = 0})

\* C4: a row is appended during Iteration(burnIn, it) if and only if
\* it > burnIn and it mod 10 = 0, and at most one row per call; after the
\* run the number of rows is the number of such it in [0, niter).
C4_Thinning ==
  [][/\ Len(outfile') =
          Len(outfile)
          + (IF pc = "sink" /\ it > burnIn /\ it % 10 = 0 THEN 1 ELSE 0)
     /\ pc' = "idle" => Len(outfile') = RowsDue(it')]_vars

\* the run is over and has appended its two rows (it = 10 and it = 20)
C4_Witness ==
  /\ pc = "idle" /\ it = niter /\ burnIn = 0
  /\ Len(outfile) = 2

\* every entry of pi_m and pi_a is the proposal's / is as it was
Overwritten(pm, pa, mym, mya) ==
  \A k \in 1..q : pm[k] = mym[k] /\ pa[k] = mya[k]

\* C5: the adaptive prior step is one joint decision: either every pi_m[j]
\* and pi_a[j] is overwritten by its proposal or every one keeps its value;
\* a logRatio above log(u) overwrites (+inf; a finite one with the log of u
\* below all finite values; one that is not negative with u < 1), a logRatio
\* not above it keeps (NaN, -inf; a negative one with the log of u above
\* all negative values).
C5_JointMetropolis ==
  [][pc = "prior" =>
       LET sign == ProbabSign(my_pi_m', pi_m, r1, my_pi_a', pi_a, r3)
       IN  /\ \/ Overwritten(pi_m', pi_a', my_pi_m', my_pi_a')
              \/ Overwritten(pi_m', pi_a', pi_m, pi_a)
           /\ probab' = "pinf"
                => Overwritten(pi_m', pi_a', my_pi_m', my_pi_a')
           /\ probab' = "fin" /\ my_unif' \in {"zero", "low"}
                => Overwritten(pi_m', pi_a', my_pi_m', my_pi_a')
           /\ probab' = "fin" /\ sign = "nonneg"
                => Overwritten(pi_m', pi_a', my_pi_m', my_pi_a')
           /\ probab' = "fin" /\ my_unif' = "high" /\ sign = "neg"
                => Overwritten(pi_m', pi_a', pi_m, pi_a)
           /\ probab' \in {"nan", "ninf"}
                => Overwritten(pi_m', pi_a', pi_m, pi_a)]_vars

\* the levels of the caller's pi_m and pi_a
Levels == {PiLevel(k) : k \in 0..3} \cup {0}

\* the first call has accepted a proposal, a finite logRatio against a u
\* whose logarithm is below it, and both vectors hold values the caller did
\* not supply
C5_Witness ==
  /\ pc = "sink" /\ it = 0
  /\ probab = "fin" /\ my_unif \in {"zero", "low"}
  /\ Overwritten(pi_m, pi_a, my_pi_m, my_pi_a)
  /\ \E k \in 1..q : pi_m[k] \notin Levels
  /\ \E k \in 1..q : pi_a[k] \notin Levels

\* C6: every random draw of an iteration, the proposal perturbations for
\* pi_m and pi_a and the acceptance uniform among them, is taken from the
\* one generator held by the model state (so that the trajectory is fixed
\* by the inputs and that generator's seed): the prior step takes its
\* 2 q + 1 draws from generator, and no other engine is ever advanced.
C6_OneGenerator ==
  [][/\ datarng' = datarng
     /\ pc = "prior" => generator' = GenAt(generator, 2 * q + 1)]_vars

\* C7: every row appended during Iteration(burnIn, it) lists, for
\* j = 0..q-1 in order, beta_m[j], pi_m[j], alpha_a[j], pi_a[j], then
\* beta_a, each with the value the parameter holds when the call returns.
C7_RowContent ==
  (Returned /\ it - 1 > burnIn /\ (it - 1) % 10 = 0) =>
    LET row == outfile[Len(outfile)]
    IN  /\ Len(row) = 4 * q + 1
        /\ \A k \in 1..q :
             /\ row[4 * (k - 1) + 1] = beta_m[k]
             /\ row[4 * (k - 1) + 2] = pi_m[k]
             /\ row[4 * (k - 1) + 3] = alpha_a[k]
             /\ row[4 * (k - 1) + 4] = pi_a[k]
        /\ row[4 * q + 1] = beta_a[1]

\* a row was written by a call that committed a proposal differing from the
\* pi it replaced in the call before
C7_Witness ==
  /\ Returned /\ it - 1 > burnIn /\ (it - 1) % 10 = 0
  /\ Len(outfile) = 2
  /\ Overwritten(pi_m, pi_a, my_pi_m, my_pi_a)
  /\ outfile[2][2] # outfile[1][2]

\* C8: with an argument whose size does not match n, w1, w2, q the
\* construction fails: no Iteration is ever executed.
C8_FailFast ==
  ~SizesMatch => pc \in {"new", "idle"} /\ it = 0

\* C9: in every iteration each beta_c[j] is drawn exactly once, from a
\* Normal whose mean is the sum over all i < n of
\* C1(i,j) * (res1[i] + C1(i,j) * old) divided by C1_2norm[j], and the
\* delta (old - new) * C1[:,j] is applied to res1 once.
C9_BetaCOnce ==
  [][pc = "betac" =>
       /\ generator' = GenNext(generator)
       /\ mu_cj' =
            Rat(SumTo([i \in 1..n |-> C1[j + 1][i]
                                   * (res1[i] + C1[j + 1][i] * beta_c[j + 1])], n),
                C1_2norm[j + 1])
       /\ \A i \in 1..n :
            res1'[i] = res1[i]
                       + (beta_c[j + 1] - beta_c'[j + 1]) * C1[j + 1][i]]_vars

\* C10: for every mediator j the variances var_m0[j], var_m1[j] used to
\* draw beta_m[j] and to form the log-odds of r1[j] are
\* 1/(1/sigma_m + M2norm[j]/sigma_e) with the sigma_e used for the means
\* mu_mj0, mu_mj1: the one resampled at the start of the same iteration.
C10_OneSigmaE ==
  pc = "med" =>
    /\ var_m0[j + 1] =
         Rat(sigma_m0 * sigma_e, sigma_e + M2norm[j + 1] * sigma_m0)
    /\ var_m1[j + 1] =
         Rat(sigma_m1 * sigma_e, sigma_e + M2norm[j + 1] * sigma_m1)

\* C11: in a driver run the full recomputation Residual is executed exactly
\* once, during the call with iteration index 0 and before any coefficient
\* is drawn (the coefficients are the constructor's and the caller's when
\* it runs, and the caches it leaves are the defining formulas on them); in
\* every call with iteration index > 0 it is not executed, and the entry of
\* the call leaves the caches as they were.
C11_ResidualOnce ==
  [][/\ residual_calls' =
          residual_calls + (IF pc = "idle" /\ it = 0 THEN 1 ELSE 0)
     /\ residual_calls' # residual_calls =>
          /\ coefs' = coefs
          /\ beta_a = <<BetaAInit>>
          /\ \A k \in 1..w1 : beta_c[k] = 0
          /\ \A k \in 1..q : \A c \in 1..w2 : alpha_c[k][c] = 0
          /\ res1' = Res1Of(Y, A, M, C1, beta_a[1], beta_m, beta_c)
          /\ res2' = Res2Of(M, A, C2, alpha_a, alpha_c)
          /\ res2_c' = Res2cOf(M, C2, alpha_c)
     /\ (pc = "idle" /\ it > 0) => residuals' = residuals
     /\ pc' = "idle" /\ it' > 0 => residual_calls' = 1]_vars

\* a call with iteration index > 0 has begun: Residual has run once, and
\* the coefficients it read have moved since
C11_Witness ==
  /\ pc = "med" /\ it >= 2 /\ j = 0
  /\ residual_calls = 1
  /\ beta_a[1] # BetaAInit
  /\ \E k \in 1..w1 : beta_c[k] # 0
  /\ \E k \in 1..q : \E c \in 1..w2 : alpha_c[k][c] # 0


\* the log-odds is at least 300 whatever its logarithms add (+inf too)
AtLeastClamp(c) ==
  \/ c.cls = "pinf"
  \/ c.cls = "fin" /\ RLess(RInt(Clamp + LogBound), c.rat)

\* the log-odds is below 300 whatever its logarithms add
UnderClamp(c) == c.cls = "fin" /\ RLess(c.rat, RInt(Clamp - LogBound))

\* the numbers of Bernoulli draws the claim allows for a log-odds
DrawsFor(c) ==
  IF AtLeastClamp(c) THEN {0} ELSE IF UnderClamp(c) THEN {1} ELSE {0, 1}

SumOfSquares(col) == SumTo([i \in 1..n |-> col[i] * col[i]], n)

\* C13: no Iteration call (Residual included) changes the input data Y, A,
\* M, C1, C2 or the caches A2norm, M2norm, C1_2norm, C2_2norm: once the
\* constructor has run, every step leaves them as they are, and the caches
\* hold the column sums of squares of the inputs in every later state.
C13_InputsAndNormsFixed ==
  [][/\ pc # "new" =>
          /\ Y' = Y /\ A' = A /\ M' = M /\ C1' = C1 /\ C2' = C2
          /\ A2norm' = A2norm /\ M2norm' = M2norm
          /\ C1_2norm' = C1_2norm /\ C2_2norm' = C2_2norm
     /\ pc' # "new" =>
          /\ A2norm' = <<SumOfSquares(A')>>
          /\ M2norm' = [k \in 1..q |-> SumOfSquares(M'[k])]
          /\ C1_2norm' = [k \in 1..w1 |-> SumOfSquares(C1'[k])]
          /\ C2_2norm' = [k \in 1..w2 |-> SumOfSquares(C2'[k])]]_vars

\* calls have returned, and the copies Residual took of Y and M (res1,
\* res2, res2_c) have since moved off the inputs
C13_Witness ==
  /\ Returned /\ it >= 2
  /\ \A i \in 1..n : res1[i] # Y[i]
  /\ \E k \in 1..q : res2[k] # M[k] /\ res2_c[k] # M[k] /\ M2norm[k] > 1
  /\ A2norm[1] > n

=============================================================================
